---- MODULE Spec2Model ----
(***************************************************************************)
(* The dictionary engine of skkeleton (jisyo.ts): UserDictionary,          *)
(* SKKDictionary, SkkServer, NumberConvertWrapper and Library.             *)
(*                                                                         *)
(* A JavaScript string is a sequence of one-character strings, so that     *)
(* split, indexOf, slice and join are computed as the code computes them.  *)
(* A JavaScript Map is a sequence of [key, value] records in insertion     *)
(* order, without repeated keys.                                           *)
(***************************************************************************)
EXTENDS Integers, Sequences, FiniteSets, TLC

(***************************************************************************)
(* Bounds of the model.                                                    *)
(***************************************************************************)
\* number of calls in one run
MaxSteps == 2
\* number of times the wall clock advances
ClockTicks == 1
\* the wall clock (Date.now(), file modification times) at construction; it
\* is larger than any index of the rank file
StartTime == 10

(***************************************************************************)
(* Strings.                                                                *)
(***************************************************************************)
Digits == {"0", "1", "2", "3", "4", "5", "6", "7", "8", "9"}

Min(a, b) == IF a < b THEN a ELSE b

Max(a, b) == IF a > b THEN a ELSE b

\* the positions of the character ch in s
positions(s, ch) == {i \in 1..Len(s) : s[i] = ch}

\* the least position of P, 0-based, or -1
firstOf(P) == IF P = {} THEN -1 ELSE (CHOOSE p \in P : \A q \in P : p <= q) - 1

\* String.prototype.indexOf(ch): 0-based position of the first ch, or -1
indexOf(s, ch) == firstOf(positions(s, ch))

\* String.prototype.slice(from, to) and Array.prototype.slice(from, to),
\* from >= 0, to counted from the end when negative
slice(s, from, to) ==
    LET lo == Min(from, Len(s))
        hi == IF to < 0 THEN Max(Len(s) + to, 0) ELSE Min(to, Len(s))
    IN  IF hi <= lo THEN <<>> ELSE SubSeq(s, lo + 1, hi)

\* String.prototype.substring(0, to)
substring(s, to) == SubSeq(s, 1, Min(to, Len(s)))

\* the k-th position of P in increasing order, 0 before the first and len + 1
\* after the last
nth(P, k, len) ==
    IF k = 0 THEN 0
    ELSE IF k = Cardinality(P) + 1 THEN len + 1
    ELSE CHOOSE p \in P : Cardinality({q \in P : q < p}) = k - 1

\* the pieces of s between the positions P
pieces(s, P) ==
    [k \in 1..(Cardinality(P) + 1) |->
        SubSeq(s, nth(P, k - 1, Len(s)) + 1, nth(P, k, Len(s)) - 1)]

\* String.prototype.split(ch)
split(s, ch) == pieces(s, positions(s, ch))

\* Array.prototype.join(sep), sep a string
RECURSIVE join(_, _)
join(seq, sep) ==
    IF seq = <<>> THEN <<>>
    ELSE IF Len(seq) = 1 THEN seq[1]
    ELSE seq[1] \o sep \o join(Tail(seq), sep)

startsWith(s, prefix) ==
    /\ Len(prefix) <= Len(s)
    /\ SubSeq(s, 1, Len(prefix)) = prefix

endsWith(s, ch) == s # <<>> /\ s[Len(s)] = ch

\* Array.from(new Set(seq)): every value kept at its first occurrence
RECURSIVE uniqFrom(_, _)
uniqFrom(seq, acc) ==
    IF seq = <<>> THEN acc
    ELSE IF \E i \in 1..Len(acc) : acc[i] = Head(seq)
         THEN uniqFrom(Tail(seq), acc)
         ELSE uniqFrom(Tail(seq), Append(acc, Head(seq)))

uniq(seq) == uniqFrom(seq, <<>>)

\* Array.prototype.filter((x) => x != c)
RECURSIVE without(_, _)
without(seq, c) ==
    IF seq = <<>> THEN <<>>
    ELSE IF Head(seq) = c THEN without(Tail(seq), c)
    ELSE <<Head(seq)>> \o without(Tail(seq), c)

\* Array.prototype.flat() of an array of arrays
RECURSIVE flat(_)
flat(seqs) == IF seqs = <<>> THEN <<>> ELSE Head(seqs) \o flat(Tail(seqs))

Range(seq) == {seq[i] : i \in 1..Len(seq)}

(***************************************************************************)
(* String.prototype.localeCompare: the strings of the model are compared   *)
(* character by character in the collation order of their characters       *)
(* (space and punctuation, digits, letters).                               *)
(***************************************************************************)
Collation == <<"\n", " ", ";", "-", ".", "/", "#", "0", "1", "2", "3", "4",
               "5", "6", "7", "8", "9", "a", "b", "c", "e", "i", "k", "n",
               "o", "r", "s", "t", "u", "x", "y", "z">>

charOrder(ch) == CHOOSE i \in 1..Len(Collation) : Collation[i] = ch

\* a.localeCompare(b): negative, zero or positive
RECURSIVE localeCompare(_, _)
localeCompare(a, b) ==
    IF a = <<>> /\ b = <<>> THEN 0
    ELSE IF a = <<>> THEN -1
    ELSE IF b = <<>> THEN 1
    ELSE IF charOrder(Head(a)) # charOrder(Head(b))
         THEN charOrder(Head(a)) - charOrder(Head(b))
         ELSE localeCompare(Tail(a), Tail(b))

(***************************************************************************)
(* Map: a sequence of [key, value] records in insertion order.             *)
(***************************************************************************)
mapHas(m, k) == \E i \in 1..Len(m) : m[i].key = k

mapIndex(m, k) == CHOOSE i \in 1..Len(m) : m[i].key = k

\* Map.prototype.get(k) ?? default
mapGet(m, k, default) == IF mapHas(m, k) THEN m[mapIndex(m, k)].value ELSE default

\* Map.prototype.set(k, v): an existing key keeps its place
mapSet(m, k, v) ==
    IF mapHas(m, k)
    THEN [m EXCEPT ![mapIndex(m, k)] = [key |-> k, value |-> v]]
    ELSE Append(m, [key |-> k, value |-> v])

\* Map.prototype.delete(k)
mapDelete(m, k) ==
    IF mapHas(m, k)
    THEN SubSeq(m, 1, mapIndex(m, k) - 1) \o SubSeq(m, mapIndex(m, k) + 1, Len(m))
    ELSE m

mapKeys(m) == {m[i].key : i \in 1..Len(m)}

\* the comparators handed to Array.prototype.sort in writeFile
compare(how, a, b) ==
    CASE how = "keyDescending" -> localeCompare(b.key, a.key)
      [] how = "keyAscending" -> localeCompare(a.key, b.key)
      [] how = "valueAscending" -> a.value - b.value

\* Array.prototype.sort(cmp) on map entries: stable
RECURSIVE insertSorted(_, _, _)
insertSorted(sorted, e, how) ==
    IF sorted = <<>> THEN <<e>>
    ELSE IF compare(how, e, Head(sorted)) < 0 THEN <<e>> \o sorted
    ELSE <<Head(sorted)>> \o insertSorted(Tail(sorted), e, how)

RECURSIVE sortFrom(_, _, _)
sortFrom(seq, acc, how) ==
    IF seq = <<>> THEN acc
    ELSE sortFrom(Tail(seq), insertSorted(acc, Head(seq), how), how)

sort(seq, how) == sortFrom(seq, <<>>, how)

(***************************************************************************)
(* Number conversion (convertNumber and its helpers).                      *)
(***************************************************************************)
DigitChars == <<"0", "1", "2", "3", "4", "5", "6", "7", "8", "9">>

\* the glyphs of zenkakuNumbers: "Z3" stands for the full-width digit three
zenkakuNumbers == <<"Z0", "Z1", "Z2", "Z3", "Z4", "Z5", "Z6", "Z7", "Z8", "Z9">>

\* the glyphs of kanjiNumbers: "K3" stands for the kanji digit three
kanjiNumbers == <<"K0", "K1", "K2", "K3", "K4", "K5", "K6", "K7", "K8", "K9">>

digitValue(ch) == (CHOOSE i \in 1..10 : DigitChars[i] = ch) - 1

\* parseInt(e) of a run of decimal digits
RECURSIVE parseIntFrom(_, _)
parseIntFrom(e, n) ==
    IF e = <<>> THEN n ELSE parseIntFrom(Tail(e), 10 * n + digitValue(Head(e)))

parseInt(e) == parseIntFrom(e, 0)

\* Number.prototype.toString() of a non-negative integer
RECURSIVE toString(_)
toString(n) ==
    IF n < 10 THEN <<DigitChars[n + 1]>>
    ELSE toString(n \div 10) \o <<DigitChars[(n % 10) + 1]>>

\* n.toString().replaceAll(/[0-9]/g, (c) => glyphs[parseInt(c)])
replaceDigits(s, glyphs) == [i \in 1..Len(s) |-> glyphs[digitValue(s[i]) + 1]]

toZenkaku(n) == replaceDigits(toString(n), zenkakuNumbers)

toKanjiModern(n) == replaceDigits(toString(n), kanjiNumbers)

\* JpNum.number2kanji of the japanese_numeral library: the place-value
\* numeral of n, kept as one opaque glyph followed by the digits it stands for
toKanjiClassic(n) == <<"J">> \o toString(n)

\* pattern.split(/(#[0-9]?)/g): text, marker, text, ..., marker, text
RECURSIVE splitMarkers(_, _)
splitMarkers(s, acc) ==
    IF s = <<>> THEN <<acc>>
    ELSE IF Head(s) = "#"
         THEN IF Len(s) > 1 /\ s[2] \in Digits
              THEN <<acc, <<"#", s[2]>> >> \o splitMarkers(SubSeq(s, 3, Len(s)), <<>>)
              ELSE <<acc, <<"#">> >> \o splitMarkers(Tail(s), <<>>)
         ELSE splitMarkers(Tail(s), Append(acc, Head(s)))

\* entry.split(/([0-9]+)/g): text, digit run, text, ..., digit run, text
RECURSIVE splitDigitRuns(_, _, _)
splitDigitRuns(s, acc, inRun) ==
    IF s = <<>> THEN IF inRun THEN <<acc, <<>> >> ELSE <<acc>>
    ELSE IF (Head(s) \in Digits) = inRun
         THEN splitDigitRuns(Tail(s), Append(acc, Head(s)), inRun)
         ELSE <<acc>> \o splitDigitRuns(Tail(s), <<Head(s)>>, ~inRun)

\* the callback of convertNumber's map
convertField(k, e) ==
    IF k \in {<<"#">>, <<"#", "0">>, <<"#", "4">>, <<"#", "5">>, <<"#", "6">>,
              <<"#", "7">>, <<"#", "8">>, <<"#", "9">>}
    THEN e
    ELSE IF k = <<"#", "1">> THEN toZenkaku(parseInt(e))
    ELSE IF k = <<"#", "2">> THEN toKanjiModern(parseInt(e))
    ELSE IF k = <<"#", "3">> THEN toKanjiClassic(parseInt(e))
    ELSE k

\* zip stops at the shorter of the two arrays
convertNumber(pattern, entry) ==
    LET ks == splitMarkers(pattern, <<>>)
        es == splitDigitRuns(entry, <<>>, FALSE)
        n  == Min(Len(ks), Len(es))
    IN  join([i \in 1..n |-> convertField(ks[i], es[i])], <<>>)

\* word.replaceAll(/[0-9]+/g, "#")
RECURSIVE replaceDigitRuns(_)
replaceDigitRuns(s) ==
    IF s = <<>> THEN <<>>
    ELSE IF Head(s) \in Digits
         THEN IF Len(s) > 1 /\ s[2] \in Digits
              THEN replaceDigitRuns(Tail(s))
              ELSE <<"#">> \o replaceDigitRuns(Tail(s))
         ELSE <<Head(s)>> \o replaceDigitRuns(Tail(s))

(***************************************************************************)
(* The dictionary text: markers, decoding (readFile) and encoding          *)
(* (writeFile).                                                            *)
(***************************************************************************)
okuriAriMarker ==
    <<";", ";", " ", "o", "k", "u", "r", "i", "-", "a", "r", "i", " ",
      "e", "n", "t", "r", "i", "e", "s", ".">>

okuriNasiMarker ==
    <<";", ";", " ", "o", "k", "u", "r", "i", "-", "n", "a", "s", "i", " ",
      "e", "n", "t", "r", "i", "e", "s", ".">>

\* the loop of readFile over the lines of the file; parseLine is its body for
\* a line whose first space is at pos
RECURSIVE parseLines(_, _, _, _)
\* parseLine that keeps the last character of the line in the candidates
parseLineToEnd(line, pos, rest, mode, ari, nasi) ==
    IF line = okuriAriMarker THEN parseLines(rest, 0, ari, nasi)
    ELSE IF line = okuriNasiMarker THEN parseLines(rest, 1, ari, nasi)
    ELSE IF mode = -1 THEN parseLines(rest, mode, ari, nasi)
    ELSE IF pos # -1
         THEN IF mode = 0
              THEN parseLines(rest, mode,
                       mapSet(ari, substring(line, pos),
                              split(slice(line, pos + 2, Len(line)), "/")),
                       nasi)
              ELSE parseLines(rest, mode, ari,
                       mapSet(nasi, substring(line, pos),
                              split(slice(line, pos + 2, Len(line)), "/")))
         ELSE parseLines(rest, mode, ari, nasi)

parseLine(line, pos, rest, mode, ari, nasi) ==
    IF line = okuriAriMarker THEN parseLines(rest, 0, ari, nasi)
    ELSE IF line = okuriNasiMarker THEN parseLines(rest, 1, ari, nasi)
    ELSE IF mode = -1 THEN parseLines(rest, mode, ari, nasi)
    ELSE IF pos # -1
         THEN IF mode = 0
              THEN parseLines(rest, mode,
                       mapSet(ari, substring(line, pos),
                              split(slice(line, pos + 2, -1), "/")),
                       nasi)
              ELSE parseLines(rest, mode, ari,
                       mapSet(nasi, substring(line, pos),
                              split(slice(line, pos + 2, -1), "/")))
         ELSE parseLines(rest, mode, ari, nasi)

parseLines(lines, mode, ari, nasi) ==
    IF lines = <<>> THEN [okuriAri |-> ari, okuriNasi |-> nasi]
    ELSE parseLine(Head(lines), indexOf(Head(lines), " "), Tail(lines), mode, ari, nasi)

\* the tables readFile builds from the text of the dictionary file
decodeJisyo(text) == parseLines(split(text, "\n"), -1, <<>>, <<>>)

\* entryLine without the "/" that closes the line
entryLineUnclosed(e) == e.key \o <<" ", "/">> \o join(e.value, <<"/">>)

\* `${e[0]} /${e[1].join("/")}/`
entryLine(e) == e.key \o <<" ", "/">> \o join(e.value, <<"/">>) \o <<"/">>

entryLines(entries) == [i \in 1..Len(entries) |-> entryLine(entries[i])]

\* encodeJisyo with both sections in ascending order of the keys
encodeJisyoAscending(ari, nasi) ==
    join(flat(<< <<okuriAriMarker>>,
                 entryLines(sort(ari, "keyAscending")),
                 <<okuriNasiMarker>>,
                 entryLines(sort(nasi, "keyAscending")),
                 << <<>> >> >>),
         <<"\n">>)

\* the text writeFile writes to the dictionary file
encodeJisyo(ari, nasi) ==
    join(flat(<< <<okuriAriMarker>>,
                 entryLines(sort(ari, "keyDescending")),
                 <<okuriNasiMarker>>,
                 entryLines(sort(nasi, "keyAscending")),
                 << <<>> >> >>),
         <<"\n">>)

\* the array writeFile writes to the rank file
keysOf(entries) == [i \in 1..Len(entries) |-> entries[i].key]

encodeRank(rank) == keysOf(sort(rank, "valueAscending"))

\* new Map(rankData.map((c, i) => [c, i]))
RECURSIVE decodeRankFrom(_, _, _)
decodeRankFrom(data, i, m) ==
    IF data = <<>> THEN m
    ELSE decodeRankFrom(Tail(data), i + 1, mapSet(m, Head(data), i))

decodeRank(data) == decodeRankFrom(data, 0, <<>>)

(***************************************************************************)
(* The kana table (kana.ts): romanized key, [kana, following feed].        *)
(***************************************************************************)
KanaTable ==
    << [key |-> <<"k", "a">>, kanas |-> << <<"b">>, <<>> >>],
       [key |-> <<"k", "i">>, kanas |-> << <<"1">>, <<>> >>],
       [key |-> <<"x", "a">>, kanas |-> << <<"c">> >>] >>

\* the entries of a table whose key starts with prefix, in the table's order
entriesStartingWith(table, prefix) ==
    SelectSeq(table, LAMBDA e : startsWith(e.key, prefix))

\* the search of cacheCandidates and of SKKDictionary.getCandidates for a
\* feed that is not empty, over the kana table from its i-th entry
RECURSIVE searchFeed(_, _, _, _)
searchFeed(okuriNasi, prefix, feed, i) ==
    IF i > Len(KanaTable) THEN <<>>
    ELSE LET key   == KanaTable[i].key
             kanas == KanaTable[i].kanas
         IN  (IF startsWith(key, feed) /\ Len(kanas) > 1
              THEN entriesStartingWith(okuriNasi, prefix \o kanas[1])
              ELSE <<>>)
             \o searchFeed(okuriNasi, prefix, feed, i + 1)

\* the candidates cacheCandidates collects when the cache does not answer
searchCandidates(okuriNasi, prefix, feed) ==
    IF feed # <<>>
    THEN searchFeed(okuriNasi, prefix, feed, 1)
    ELSE entriesStartingWith(okuriNasi, prefix)

(***************************************************************************)
(* UserDictionary: a record of the fields of the object.                   *)
(***************************************************************************)
HenkanType == {"okuriari", "okurinasi"}

\* new UserDictionary(okuriAri, okuriNasi, rank)
NewUserDictionary(ari, nasi, rank) ==
    [okuriAri |-> ari, okuriNasi |-> nasi, rank |-> rank,
     path |-> "", rankPath |-> "", loadTime |-> -1,
     cachedPrefix |-> <<>>, cachedFeed |-> <<>>, cachedCandidates |-> <<>>]

\* type === "okuriari" ? this.#okuriAri : this.#okuriNasi
target(ud, type) == IF type = "okuriari" THEN ud.okuriAri ELSE ud.okuriNasi

setTarget(ud, type, table) ==
    IF type = "okuriari"
    THEN [ud EXCEPT !.okuriAri = table]
    ELSE [ud EXCEPT !.okuriNasi = table]

UserDictionary_getCandidate(ud, type, word) == mapGet(target(ud, type), word, <<>>)

\* the object after cacheCandidates(prefix, feed)
cacheCandidates(ud, prefix, feed) ==
    IF ud.cachedPrefix = prefix /\ ud.cachedFeed = feed
    THEN ud
    ELSE [ud EXCEPT !.cachedPrefix = prefix,
                    !.cachedFeed = feed,
                    !.cachedCandidates = searchCandidates(ud.okuriNasi, prefix, feed)]

\* what getCandidates(prefix, feed) returns
UserDictionary_getCandidates(ud, prefix, feed) ==
    cacheCandidates(ud, prefix, feed).cachedCandidates

\* what getRanks(prefix) returns
UserDictionary_getRanks(ud, prefix) ==
    LET cached == cacheCandidates(ud, prefix, <<>>).cachedCandidates
        set    == UNION {Range(cached[i].value) : i \in 1..Len(cached)}
    IN  SelectSeq(ud.rank, LAMBDA e : e.key \in set)

\* registerCandidate without the return for the empty candidate
registerCandidateOfEmpty(ud, type, word, candidate, clock) ==
    [setTarget(ud, type,
               mapSet(target(ud, type), word,
                      uniq(<<candidate>> \o mapGet(target(ud, type), word, <<>>))))
        EXCEPT !.rank = mapSet(ud.rank, candidate, clock),
               !.cachedPrefix = <<>>]

\* the object after registerCandidate(type, word, candidate) at time clock
UserDictionary_registerCandidate(ud, type, word, candidate, clock) ==
    IF candidate = <<>> THEN ud
    ELSE LET oldCandidate == mapGet(target(ud, type), word, <<>>)
             set == setTarget(ud, type,
                        mapSet(target(ud, type), word,
                               uniq(<<candidate>> \o oldCandidate)))
         IN  [set EXCEPT !.rank = mapSet(ud.rank, candidate, clock),
                         !.cachedPrefix = <<>>]

\* purgeCandidate that keeps the key of an entry left without candidates
purgeCandidateKeepingKey(ud, type, word, candidate) ==
    setTarget(ud, type,
              mapSet(target(ud, type), word,
                     without(mapGet(target(ud, type), word, <<>>), candidate)))

\* the object after purgeCandidate(type, word, candidate)
UserDictionary_purgeCandidate(ud, type, word, candidate) ==
    LET newCandidate == without(mapGet(target(ud, type), word, <<>>), candidate)
    IN  IF Len(newCandidate) > 0
        THEN setTarget(ud, type, mapSet(target(ud, type), word, newCandidate))
        ELSE setTarget(ud, type, mapDelete(target(ud, type), word))

(***************************************************************************)
(* The files: the dictionary file with its modification time and the rank  *)
(* file. The rank file holds a JSON array of strings (strings = TRUE, the  *)
(* array in data) or any other content.                                    *)
(***************************************************************************)
NoJisyoFile == [exists |-> FALSE, text |-> <<>>, mtime |-> 0]

NoRankFile == [exists |-> FALSE, strings |-> FALSE, data |-> <<>>]

\* readFile(path, rankPath) once the text is decoded into tables: the object
\* after it, and whether readFile threw
readTables(ud, tables, fs, rankPath) ==
    IF rankPath = ""
    THEN [ud |-> [ud EXCEPT !.okuriAri = tables.okuriAri,
                            !.okuriNasi = tables.okuriNasi],
          threw |-> FALSE]
    ELSE IF ~fs.rank.exists \/ ~fs.rank.strings
         THEN [ud |-> [ud EXCEPT !.okuriAri = tables.okuriAri,
                                 !.okuriNasi = tables.okuriNasi],
               threw |-> TRUE]
         ELSE [ud |-> [ud EXCEPT !.okuriAri = tables.okuriAri,
                                 !.okuriNasi = tables.okuriNasi,
                                 !.rank = decodeRank(fs.rank.data)],
               threw |-> FALSE]

UserDictionary_readFile(ud, fs, rankPath) ==
    readTables(ud, decodeJisyo(fs.jisyo.text), fs, rankPath)

\* an argument that the caller leaves out
undefined == "undefined"

\* the end of load() after readFile: the exception is caught and the cache
\* is dropped
loadRead(read) ==
    [ud |-> [read.ud EXCEPT !.cachedPrefix = <<>>],
     parsed |-> TRUE, caught |-> read.threw, threw |-> FALSE]

\* load() without the comparison of the modification time to #loadTime
loadFromAlways(ud, fs, path, rankPath) ==
    IF path = ""
    THEN [ud |-> [ud EXCEPT !.path = path, !.rankPath = rankPath],
          parsed |-> FALSE, caught |-> FALSE, threw |-> FALSE]
    ELSE IF ~fs.jisyo.exists
         THEN [ud |-> [ud EXCEPT !.path = path, !.rankPath = rankPath,
                                 !.cachedPrefix = <<>>],
               parsed |-> FALSE, caught |-> TRUE, threw |-> FALSE]
    ELSE loadRead(UserDictionary_readFile(
                      [ud EXCEPT !.path = path, !.rankPath = rankPath,
                                 !.loadTime = fs.jisyo.mtime],
                      fs, rankPath))

\* load() once path and rankPath are settled
loadFrom(ud, fs, path, rankPath) ==
    IF path = ""
    THEN [ud |-> [ud EXCEPT !.path = path, !.rankPath = rankPath],
          parsed |-> FALSE, caught |-> FALSE, threw |-> FALSE]
    ELSE IF ~fs.jisyo.exists
         THEN [ud |-> [ud EXCEPT !.path = path, !.rankPath = rankPath,
                                 !.cachedPrefix = <<>>],
               parsed |-> FALSE, caught |-> TRUE, threw |-> FALSE]
    ELSE IF fs.jisyo.mtime = ud.loadTime
         THEN [ud |-> [ud EXCEPT !.path = path, !.rankPath = rankPath],
               parsed |-> FALSE, caught |-> FALSE, threw |-> FALSE]
    ELSE loadRead(UserDictionary_readFile(
                      [ud EXCEPT !.path = path, !.rankPath = rankPath,
                                 !.loadTime = fs.jisyo.mtime],
                      fs, rankPath))

\* load({path, rankPath}): the object after it, whether it parsed the file,
\* whether an exception was caught, and whether one left the call (threw)
UserDictionary_load(ud, fs, pathArg, rankPathArg) ==
    loadFrom(ud, fs,
             IF pathArg = undefined THEN ud.path ELSE pathArg,
             IF rankPathArg = undefined THEN ud.rankPath ELSE rankPathArg)

\* the outcomes of the two writes of writeFile
WriteOutcome == {"written", "jisyoWriteFails", "rankWriteFails"}

\* the files after writeFile(path, rankPath) at time clock
UserDictionary_writeFile(ud, fs, clock, outcome) ==
    IF outcome = "jisyoWriteFails" THEN fs
    ELSE IF ud.rankPath = "" \/ outcome = "rankWriteFails"
         THEN [fs EXCEPT !.jisyo = [exists |-> TRUE,
                                    text |-> encodeJisyo(ud.okuriAri, ud.okuriNasi),
                                    mtime |-> clock]]
         ELSE [jisyo |-> [exists |-> TRUE,
                          text |-> encodeJisyo(ud.okuriAri, ud.okuriNasi),
                          mtime |-> clock],
               rank  |-> [exists |-> TRUE, strings |-> TRUE,
                          data |-> encodeRank(ud.rank)]]

\* whether writeFile throws
writeFileThrows(ud, outcome) ==
    \/ outcome = "jisyoWriteFails"
    \/ outcome = "rankWriteFails" /\ ud.rankPath # ""

\* the end of save() without the refresh of #loadTime
saveWrittenStale(ud, after, threw) ==
    [ud |-> ud, fs |-> after, wrote |-> ~threw, threw |-> FALSE]

\* the end of save() after writeFile: the modification time of the file is
\* taken as the load time unless writeFile threw
saveWritten(ud, after, threw) ==
    IF threw
    THEN [ud |-> ud, fs |-> after, wrote |-> FALSE, threw |-> FALSE]
    ELSE [ud |-> [ud EXCEPT !.loadTime = after.jisyo.mtime],
          fs |-> after, wrote |-> TRUE, threw |-> FALSE]

\* save(): the object and the files after it, whether the files were
\* written, and whether an exception left the call (threw)
UserDictionary_save(ud, fs, clock, outcome) ==
    IF ud.path = "" THEN [ud |-> ud, fs |-> fs, wrote |-> FALSE, threw |-> FALSE]
    ELSE saveWritten(ud, UserDictionary_writeFile(ud, fs, clock, outcome),
                     writeFileThrows(ud, outcome))

(***************************************************************************)
(* The other sources of the Library.                                       *)
(***************************************************************************)
\* new SKKDictionary()
NewSKKDictionary == [okuriAri |-> <<>>, okuriNasi |-> <<>>]

\* the tables that SKKDictionary.load builds from the first static dictionary file
globalDictionary ==
    [okuriAri  |-> << [key |-> <<"a", "b">>, value |-> << <<"z">> >>] >>,
     okuriNasi |-> << [key |-> <<"a", "b">>,
                       value |-> << <<"y">>, <<"x">>, <<"y">> >>],
                      [key |-> <<"a", "#">>,
                       value |-> << <<"#", "1", "x">>, <<"#", "0">> >>] >>]

\* the tables that SKKDictionary.load builds from the second static dictionary file
otherDictionary ==
    [okuriAri  |-> <<>>,
     okuriNasi |-> << [key |-> <<"a", "b">>, value |-> << <<"u">> >>] >>]

\* the labels new TextDecoder(encoding) accepts, among those of the
\* configurations; undefined (no name for what was detected) stands for utf-8
DecoderLabels == {"euc-jp", undefined}

\* SKKDictionary.load(path, encoding): whether it throws, and the tables of
\* the object after it; file.dict is what the parse of a readable file gives
SKKDictionary_load(file, encoding) ==
    IF encoding \notin DecoderLabels \/ ~file.readable
    THEN [threw |-> TRUE, dict |-> NewSKKDictionary]
    ELSE [threw |-> FALSE, dict |-> file.dict]

\* encodingNames[String(encoding.detect(data))]
detectEncoding(file) == file.detected

\* the callback of globalDictionaryConfig.map in the startup routine: whether
\* its promise is rejected, and the dictionary it returns otherwise
loadGlobalDictionary(file, encodingName) ==
    IF encodingName = "" /\ ~file.readable
    THEN [rejected |-> TRUE, dict |-> NewSKKDictionary]
    ELSE [rejected |-> FALSE,
          dict |-> SKKDictionary_load(file, IF encodingName = ""
                                            THEN detectEncoding(file)
                                            ELSE encodingName).dict]

\* Promise.all over the configuration: config[i] = [file, encodingName]
loadGlobalDictionaries(config) ==
    [i \in 1..Len(config) |-> loadGlobalDictionary(config[i].file, config[i].encodingName)]

\* whether the startup routine returns a Library (no promise was rejected)
loadReturns(loads) == \A i \in 1..Len(loads) : ~loads[i].rejected

\* the static dictionaries of the Library that the startup routine returns
\* (none when it returns no Library)
loadedDictionaries(loads) ==
    IF loadReturns(loads) THEN [i \in 1..Len(loads) |-> loads[i].dict] ELSE <<>>

SKKDictionary_getCandidate(dict, type, word) ==
    mapGet(IF type = "okuriari" THEN dict.okuriAri ELSE dict.okuriNasi, word, <<>>)

SKKDictionary_getCandidates(dict, prefix, feed) ==
    sort(searchCandidates(dict.okuriNasi, prefix, feed), "keyAscending")

\* the dictionary of the remote server
serverJisyo ==
    << [key |-> <<"a", "b">>, value |-> << <<"w">>, <<"x">> >>],
       [key |-> <<"a", "1">>, value |-> << <<"v">> >>] >>

\* the answer of the server to the request "1" + word + " "
serverResponse(word) ==
    IF mapHas(serverJisyo, word)
    THEN <<"1", "/">> \o join(mapGet(serverJisyo, word, <<>>), <<"/">>) \o <<"/", "\n">>
    ELSE <<"4">> \o word \o <<" ", "\n">>

\* the reads the connection delivers: the answer whole (cut = 0) or in two
\* parts, split after cut characters
Cuts == {0, 3}

chunks(response, cut) ==
    IF cut \in 1..(Len(response) - 1)
    THEN <<SubSeq(response, 1, cut), SubSeq(response, cut + 1, Len(response))>>
    ELSE <<response>>

\* the loop of SkkServer.getCandidate over the reads
RECURSIVE readResponse(_, _)
readResponse(reads, result) ==
    IF reads = <<>> THEN result
    ELSE LET str  == Head(reads)
             more == IF str # <<>> /\ str[1] = "4" THEN <<>>
                     ELSE LET fields == split(str, "/")
                          IN  slice(fields, 1, -1)
         IN  IF endsWith(str, "\n") THEN result \o more
             ELSE readResponse(Tail(reads), result \o more)

SkkServer_getCandidate(connected, word, cut) ==
    IF ~connected THEN <<>>
    ELSE readResponse(chunks(serverResponse(word), cut), <<>>)

SkkServer_getCandidates == << [key |-> <<>>, value |-> << <<>> >>] >>

\* the callbacks of NumberConvertWrapper: candidate.map((c) => convertNumber(c, word))
convertAll(candidate, word) ==
    [i \in 1..Len(candidate) |-> convertNumber(candidate[i], word)]

convertEntries(candidates, prefix) ==
    [i \in 1..Len(candidates) |->
        [key |-> candidates[i].key, value |-> convertAll(candidates[i].value, prefix)]]

\* getCandidate of the wrapper that converts whatever the word is
wrapperAlwaysConverts(candidate, word) == convertAll(candidate, word)

\* NumberConvertWrapper.getCandidate, given what the inner dictionary
\* returns for the word with "#" for its digit runs
NumberConvertWrapper_getCandidate(candidate, word) ==
    IF word = replaceDigitRuns(word) THEN candidate ELSE convertAll(candidate, word)

NumberConvertWrapper_getCandidates(candidates, prefix) ==
    IF prefix = replaceDigitRuns(prefix) THEN candidates
    ELSE convertEntries(candidates, prefix)

(***************************************************************************)
(* Library: [wrapDictionary(userDictionary), wrapDictionary(global),       *)
(* skkServer].                                                             *)
(***************************************************************************)
\* what each dictionary of the Library returns from getCandidate, in the
\* order of #dictionaries
sourceCandidate(ud, dicts, connected, type, word, cut) ==
    << NumberConvertWrapper_getCandidate(
           UserDictionary_getCandidate(ud, type, replaceDigitRuns(word)), word) >>
    \o [i \in 1..Len(dicts) |->
           NumberConvertWrapper_getCandidate(
               SKKDictionary_getCandidate(dicts[i], type, replaceDigitRuns(word)),
               word)]
    \o << SkkServer_getCandidate(connected, word, cut) >>

\* merged.add(c) for every c of every dictionary; Array.from(merged)
RECURSIVE mergeCandidate(_, _)
mergeCandidate(results, merged) ==
    IF results = <<>> THEN merged
    ELSE mergeCandidate(Tail(results), uniqFrom(Head(results), merged))

\* getCandidate that collects into an array instead of a Set
Library_getCandidateArray(ud, dicts, connected, type, word, cut) ==
    flat(sourceCandidate(ud, dicts, connected, type, word, cut))

Library_getCandidate(ud, dicts, connected, type, word, cut) ==
    mergeCandidate(sourceCandidate(ud, dicts, connected, type, word, cut), <<>>)

\* what each dictionary of the Library returns from getCandidates
sourceCandidates(ud, dicts, prefix, feed) ==
    << NumberConvertWrapper_getCandidates(
           UserDictionary_getCandidates(ud, replaceDigitRuns(prefix), feed), prefix) >>
    \o [i \in 1..Len(dicts) |->
           NumberConvertWrapper_getCandidates(
               SKKDictionary_getCandidates(dicts[i], replaceDigitRuns(prefix), feed),
               prefix)]
    \o << SkkServer_getCandidates >>

\* gatherCandidates(collector, candidates)
RECURSIVE gatherCandidates(_, _)
gatherCandidates(collector, candidates) ==
    IF candidates = <<>> THEN collector
    ELSE LET kana == Head(candidates).key
             cs   == Head(candidates).value
             set  == uniqFrom(cs, mapGet(collector, kana, <<>>))
         IN  gatherCandidates(mapSet(collector, kana, set), Tail(candidates))

RECURSIVE gatherAll(_, _)
gatherAll(results, collector) ==
    IF results = <<>> THEN collector
    ELSE gatherAll(Tail(results), gatherCandidates(collector, Head(results)))

\* getCandidates that asks the dictionaries whatever the length of the prefix
Library_getCandidatesOfAny(ud, dicts, prefix, feed) ==
    gatherAll(sourceCandidates(ud, dicts, prefix, feed), <<>>)

Library_getCandidates(ud, dicts, prefix, feed) ==
    IF Len(prefix) < 2 THEN <<>>
    ELSE gatherAll(sourceCandidates(ud, dicts, prefix, feed), <<>>)

\* the user dictionary after Library.getCandidates(prefix, feed)
Library_getCandidatesCache(ud, prefix, feed) ==
    IF Len(prefix) < 2 THEN ud
    ELSE cacheCandidates(ud, replaceDigitRuns(prefix), feed)

Library_getRanks(ud, prefix) == UserDictionary_getRanks(ud, prefix)

\* the end of registerCandidate and purgeCandidate with a save() whatever
\* config.immediatelyJisyoRW is
saveAlways(ud, fs, immediately, clock, outcome) ==
    UserDictionary_save(ud, fs, clock, outcome)

\* the end of registerCandidate and purgeCandidate of the Library:
\* if (config.immediatelyJisyoRW) await this.#userDictionary.save()
saveImmediately(ud, fs, immediately, clock, outcome) ==
    IF immediately
    THEN UserDictionary_save(ud, fs, clock, outcome)
    ELSE [ud |-> ud, fs |-> fs, wrote |-> FALSE, threw |-> FALSE]

\* Library.registerCandidate: the object and the files after it
Library_registerCandidate(ud, fs, immediately, type, word, candidate, clock, outcome) ==
    saveImmediately(UserDictionary_registerCandidate(ud, type, word, candidate, clock),
                    fs, immediately, clock, outcome)

\* Library.purgeCandidate: the object and the files after it
Library_purgeCandidate(ud, fs, immediately, type, word, candidate, clock, outcome) ==
    saveImmediately(UserDictionary_purgeCandidate(ud, type, word, candidate),
                    fs, immediately, clock, outcome)

(***************************************************************************)
(* The inputs of the calls.                                                *)
(***************************************************************************)
Keys == {<<"a", "b">>, <<"a", "1">>}

Candidates == {<<>>, <<"x">>, <<"y">>, <<"x", "/", "y">>}

\* the candidates of the calls that are followed through the files
FileCandidates == {<<>>, <<"x">>, <<"x", "/", "y">>}

Prefixes == {<<>>, <<"a">>, <<"a", "b">>, <<"a", "1">>}

Feeds == {<<>>, <<"k">>}

\* a dictionary file in the canonical form
JisyoText1 ==
    join(<< okuriAriMarker,
            <<"a", "b", " ", "/", "z", "/">>,
            okuriNasiMarker,
            <<"a", "b", " ", "/", "y", "/", "x", "/">>,
            <<>> >>, <<"\n">>)

\* a dictionary file with a line before the markers, a repeated candidate,
\* an empty candidate, a line without a space and no final newline
JisyoText2 ==
    join(<< <<"a", "b", " ", "/", "w", "/">>,
            okuriAriMarker,
            okuriNasiMarker,
            <<"a", "b", " ", "/", "x", "/", "x", "/", "y", "/">>,
            <<"a", "1", " ", "/", "/">>,
            <<"a", "b", "c">> >>, <<"\n">>)

JisyoTexts == {JisyoText1, JisyoText2}

\* the userDictionaryPath of the startup routine; new Library() has none
UserDictionaryPaths ==
    { [path |-> undefined, rankPath |-> undefined],
      [path |-> "jisyo", rankPath |-> undefined],
      [path |-> "jisyo", rankPath |-> "rank"] }

jisyoFile(text, mtime) == [exists |-> TRUE, text |-> text, mtime |-> mtime]

rankFile(data) == [exists |-> TRUE, strings |-> TRUE, data |-> data]

\* the files when the program starts, for a configuration
InitialFiles(conf) ==
    IF conf.path = undefined THEN {[jisyo |-> NoJisyoFile, rank |-> NoRankFile]}
    ELSE {[jisyo |-> NoJisyoFile, rank |-> NoRankFile]} \cup
         { [jisyo |-> jisyoFile(t, StartTime),
            rank  |-> IF conf.rankPath = undefined THEN NoRankFile
                      ELSE rankFile(<< <<"y">>, <<"x">> >>)] : t \in JisyoTexts }

(***************************************************************************)
(* The state.                                                              *)
(***************************************************************************)
VARIABLES
    userDictionary,      \* the fields of the UserDictionary of the Library
    files,               \* the dictionary file and the rank file
    now,                 \* the wall clock: Date.now() and the time of a write
    dictionaries,        \* the tables of the static dictionaries of the Library
    startup,             \* config: the globalDictionaryConfig of the startup
                         \* routine; returned: it returned a Library;
                         \* unhandled: a promise was rejected with no handler
    connected,           \* whether #conn of the SkkServer is set
    connections,         \* open: the connections the SkkServer opened and did
                         \* not close; closed: #conn was closed; wroteClosed:
                         \* a request was written to a closed connection
    immediatelyJisyoRW,  \* config.immediatelyJisyoRW
    pending,             \* the calls of save() and load() that wait at an
                         \* await: the await (pc) and the locals of the call
    last,                \* the last call, its arguments, what it returned, the
                         \* call before it (after), the list of the key
                         \* before it (before) and what each dictionary
                         \* returned to it (sources)
    ghost,               \* parses: the parses since the dictionary file was last
                         \* written; saved: a save succeeded and nothing else
                         \* wrote the dictionary file since
    steps                \* the number of calls so far

vars == <<userDictionary, files, now, dictionaries, startup, connected,
          connections, immediatelyJisyoRW, pending, last, ghost, steps>>

NoCall ==
    [op |-> "none", type |-> "", key |-> <<>>, cand |-> <<>>, prefix |-> <<>>,
     feed |-> <<>>, cut |-> 0, result |-> <<>>, parsed |-> FALSE, caught |-> FALSE,
     wrote |-> FALSE, threw |-> FALSE, outcome |-> "written", after |-> "none",
     before |-> <<>>, sources |-> <<>>]

\* the most calls of save() that wait at an await at a time
MaxInFlight == 2

\* no call of save() or load() waits. A save() keeps data and rankData of
\* writeFile, and the rank Map as it was when data was computed (rank); a
\* load() keeps the tables that readFile replaced (before)
NoPending ==
    [saves |-> [i \in 1..MaxInFlight |->
                   [pc |-> "idle", data |-> <<>>, rankData |-> <<>>, rank |-> <<>>]],
     load  |-> [pc |-> "idle", before |-> NewSKKDictionary]]

\* the state once the startup routine has loaded the user dictionary
Started(conf, fs, immediately, loaded, globalDictionaryConfig, loads) ==
    /\ userDictionary = loaded.ud
    /\ files = fs
    /\ now = StartTime
    /\ dictionaries = loadedDictionaries(loads)
    /\ startup = [config |-> globalDictionaryConfig,
                  returned |-> loadReturns(loads), unhandled |-> FALSE]
    /\ connected = FALSE
    /\ connections = [open |-> 0, closed |-> FALSE, wroteClosed |-> FALSE]
    /\ immediatelyJisyoRW \in (IF conf.path = undefined THEN {FALSE} ELSE immediately)
    /\ pending = NoPending
    /\ last = [NoCall EXCEPT !.parsed = loaded.parsed, !.caught = loaded.caught]
    /\ ghost = [parses |-> IF loaded.parsed THEN 1 ELSE 0, saved |-> FALSE]
    /\ steps = 0

\* the startup routine load(globalDictionaryConfig, userDictionaryPath,
\* skkServer), or new Library() when the configuration names no path
Startup(immediately, globalDictionaryConfig) ==
    \E conf \in UserDictionaryPaths : \E fs \in InitialFiles(conf) :
        Started(conf, fs, immediately,
                UserDictionary_load(NewUserDictionary(<<>>, <<>>, <<>>), fs,
                                    conf.path, conf.rankPath),
                globalDictionaryConfig,
                loadGlobalDictionaries(globalDictionaryConfig))

\* one static dictionary file that can be read, its encoding named
GlobalDictionaryConfig ==
    << [file |-> [readable |-> TRUE, detected |-> "euc-jp", dict |-> globalDictionary],
        encodingName |-> "euc-jp"] >>

Init == Startup({FALSE}, GlobalDictionaryConfig)

InitFile == Startup(BOOLEAN, GlobalDictionaryConfig)

\* the outcomes of the writes of a call: those of save() when the call saves
Outcomes(saves) ==
    IF ~saves \/ userDictionary.path = "" THEN {"written"}
    ELSE IF userDictionary.rankPath = "" THEN {"written", "jisyoWriteFails"}
    ELSE WriteOutcome

\* whether a call writes the dictionary file
writesJisyo(ud, outcome) == ud.path # "" /\ outcome # "jisyoWriteFails"

ghostAfterSave(ud, outcome, wrote) ==
    IF writesJisyo(ud, outcome)
    THEN [parses |-> 0, saved |-> wrote]
    ELSE ghost

(***************************************************************************)
(* The calls.                                                              *)
(***************************************************************************)
\* the state after a call that changes the user dictionary and, when it
\* saves, the files: r is what the call made of them
Changed(call, r, saves, outcome) ==
    /\ steps < MaxSteps
    /\ userDictionary' = r.ud
    /\ files' = r.fs
    /\ last' = [call EXCEPT !.wrote = r.wrote, !.threw = r.threw,
                            !.outcome = outcome, !.after = last.op]
    /\ ghost' = IF saves THEN ghostAfterSave(r.ud, outcome, r.wrote) ELSE ghost
    /\ steps' = steps + 1
    /\ UNCHANGED <<now, connected, immediatelyJisyoRW, dictionaries, startup, connections, pending>>

\* Library.registerCandidate(type, word, candidate)
RegisterCandidate(type, word, candidate, outcome) ==
    Changed([NoCall EXCEPT !.op = "registerCandidate", !.type = type,
                           !.key = word, !.cand = candidate,
                           !.before = UserDictionary_getCandidate(userDictionary,
                                                                  type, word)],
            Library_registerCandidate(userDictionary, files, immediatelyJisyoRW,
                                      type, word, candidate, now, outcome),
            immediatelyJisyoRW, outcome)

\* Library.purgeCandidate(type, word, candidate)
PurgeCandidate(type, word, candidate, outcome) ==
    Changed([NoCall EXCEPT !.op = "purgeCandidate", !.type = type,
                           !.key = word, !.cand = candidate,
                           !.before = UserDictionary_getCandidate(userDictionary,
                                                                  type, word)],
            Library_purgeCandidate(userDictionary, files, immediatelyJisyoRW,
                                   type, word, candidate, now, outcome),
            immediatelyJisyoRW, outcome)

\* SkkServer.getCandidate and close() write to #conn whenever it is set:
\* whether the connection they write to is closed
writesToClosed(conn, conns) == conn /\ conns.closed

\* Library.getCandidate(type, word), the answer of the server read in the
\* parts that cut gives
GetCandidate(type, word, cut) ==
    /\ steps < MaxSteps
    /\ last' = IF writesToClosed(connected, connections)
               THEN [NoCall EXCEPT !.op = "getCandidate", !.type = type,
                                   !.key = word, !.cut = cut, !.after = last.op,
                                   !.threw = TRUE]
               ELSE [NoCall EXCEPT !.op = "getCandidate", !.type = type,
                                   !.key = word, !.cut = cut, !.after = last.op,
                                   !.sources = sourceCandidate(userDictionary,
                                                   dictionaries, connected, type,
                                                   word, cut),
                                   !.result = Library_getCandidate(userDictionary,
                                                  dictionaries, connected, type,
                                                  word, cut)]
    /\ connections' = [connections EXCEPT
                           !.wroteClosed = @ \/ writesToClosed(connected, connections)]
    /\ steps' = steps + 1
    /\ UNCHANGED <<userDictionary, files, now, connected, immediatelyJisyoRW, ghost, dictionaries, startup, pending>>

\* Library.getCandidates(prefix, feed)
GetCandidates(prefix, feed) ==
    /\ steps < MaxSteps
    /\ userDictionary' = Library_getCandidatesCache(userDictionary, prefix, feed)
    /\ last' = [NoCall EXCEPT !.op = "getCandidates", !.prefix = prefix,
                              !.feed = feed, !.after = last.op,
                              !.result = Library_getCandidates(userDictionary,
                                             dictionaries, prefix, feed)]
    /\ steps' = steps + 1
    /\ UNCHANGED <<files, now, connected, immediatelyJisyoRW, ghost, dictionaries, startup, connections, pending>>

\* UserDictionary.getCandidates(prefix, feed)
UserGetCandidates(prefix, feed) ==
    /\ steps < MaxSteps
    /\ userDictionary' = cacheCandidates(userDictionary, prefix, feed)
    /\ last' = [NoCall EXCEPT !.op = "UserDictionary.getCandidates",
                              !.prefix = prefix, !.feed = feed, !.after = last.op,
                              !.result = UserDictionary_getCandidates(userDictionary,
                                             prefix, feed)]
    /\ steps' = steps + 1
    /\ UNCHANGED <<files, now, connected, immediatelyJisyoRW, ghost, dictionaries, startup, connections, pending>>

\* Library.getRanks(prefix)
GetRanks(prefix) ==
    /\ steps < MaxSteps
    /\ userDictionary' = cacheCandidates(userDictionary, prefix, <<>>)
    /\ last' = [NoCall EXCEPT !.op = "getRanks", !.prefix = prefix,
                              !.after = last.op,
                              !.result = Library_getRanks(userDictionary, prefix)]
    /\ steps' = steps + 1
    /\ UNCHANGED <<files, now, connected, immediatelyJisyoRW, ghost, dictionaries, startup, connections, pending>>

\* SkkServer.connect() completes
Connect ==
    /\ startup.returned
    /\ ~connected
    /\ ~startup.unhandled
    /\ connected' = TRUE
    /\ connections' = [connections EXCEPT !.open = @ + 1]
    /\ UNCHANGED <<userDictionary, files, now, immediatelyJisyoRW, last, ghost, steps, dictionaries, startup, pending>>

\* the most connections that the calls of connect() open at a time
MaxConnections == 2

\* a later call of SkkServer.connect(): #conn is replaced by a new connection
ConnectAgain ==
    /\ connected
    /\ connections.open < MaxConnections
    /\ connections' = [connections EXCEPT !.open = @ + 1, !.closed = FALSE]
    /\ UNCHANGED <<userDictionary, files, now, dictionaries, startup, connected,
                   immediatelyJisyoRW, last, ghost, steps, pending>>

\* SkkServer.close(): "0" is written to #conn and #conn is closed; #conn
\* stays set
Close ==
    /\ connected
    /\ connections' = [open |-> IF connections.closed THEN connections.open
                                ELSE connections.open - 1,
                       closed |-> TRUE,
                       wroteClosed |-> connections.wroteClosed
                                           \/ writesToClosed(connected, connections)]
    /\ UNCHANGED <<userDictionary, files, now, dictionaries, startup, connected,
                   immediatelyJisyoRW, last, ghost, steps, pending>>

\* SkkServer.connect() fails: the promise that the startup routine did not
\* await is rejected
ConnectFails ==
    /\ startup.returned
    /\ ~connected
    /\ ~startup.unhandled
    /\ startup' = [startup EXCEPT !.unhandled = TRUE]
    /\ UNCHANGED <<userDictionary, files, now, dictionaries, connected,
                   immediatelyJisyoRW, last, ghost, steps, connections, pending>>

\* the state after a load() that returns r
Loaded(r) ==
    /\ steps < MaxSteps
    /\ userDictionary' = r.ud
    /\ last' = [NoCall EXCEPT !.op = "load", !.parsed = r.parsed,
                              !.caught = r.caught, !.threw = r.threw,
                              !.after = last.op]
    /\ ghost' = [ghost EXCEPT !.parses = IF r.parsed THEN @ + 1 ELSE @]
    /\ steps' = steps + 1
    /\ UNCHANGED <<files, now, connected, immediatelyJisyoRW, dictionaries, startup, connections, pending>>

\* Library.load(): UserDictionary.load() with no argument
Load == Loaded(UserDictionary_load(userDictionary, files, undefined, undefined))

\* Library.save(); the type, key, candidate and earlier list of a
\* registerCandidate that came right before it are kept in last
Save(outcome) ==
    Changed([NoCall EXCEPT !.op = "save", !.type = last.type,
                           !.key = last.key, !.cand = last.cand,
                           !.before = last.before],
            UserDictionary_save(userDictionary, files, now, outcome),
            TRUE, outcome)

\* another program writes the dictionary file
ExternalWrite(text) ==
    /\ steps < MaxSteps
    /\ files' = [files EXCEPT !.jisyo = jisyoFile(text, now)]
    /\ last' = [NoCall EXCEPT !.op = "external", !.after = last.op]
    /\ ghost' = [parses |-> 0, saved |-> FALSE]
    /\ steps' = steps + 1
    /\ UNCHANGED <<userDictionary, now, connected, immediatelyJisyoRW, dictionaries, startup, connections, pending>>

\* the wall clock advances
Tick ==
    /\ now < StartTime + ClockTicks
    /\ now' = now + 1
    /\ UNCHANGED <<userDictionary, files, connected, immediatelyJisyoRW, last, ghost, steps, dictionaries, startup, connections, pending>>

(***************************************************************************)
(* Spec: the calls of the Library on the dictionaries in memory            *)
(* (immediatelyJisyoRW is off, so no call writes a file).                  *)
(* SpecFile: the calls that change the user dictionary and its files.      *)
(***************************************************************************)
Next ==
    \/ \E t \in HenkanType, k \in Keys, c \in Candidates :
           RegisterCandidate(t, k, c, "written")
    \/ \E t \in HenkanType, k \in Keys, c \in Candidates :
           PurgeCandidate(t, k, c, "written")
    \/ \E t \in HenkanType, k \in Keys, cut \in Cuts : GetCandidate(t, k, cut)
    \/ \E p \in Prefixes, f \in Feeds : GetCandidates(p, f)
    \/ \E p \in Prefixes, f \in Feeds : UserGetCandidates(p, f)
    \/ \E p \in Prefixes : GetRanks(p)
    \/ Connect

Spec == Init /\ [][Next]_vars

NextFile ==
    \/ \E t \in HenkanType, k \in Keys, c \in FileCandidates :
           \E o \in Outcomes(immediatelyJisyoRW) : RegisterCandidate(t, k, c, o)
    \/ Load
    \/ \E o \in Outcomes(TRUE) : Save(o)
    \/ \E t \in JisyoTexts : ExternalWrite(t)
    \/ Tick

SpecFile == InitFile /\ [][NextFile]_vars

(***************************************************************************)
(* SpecDisk: the calls that change the user dictionary and its files, for  *)
(* one key and one candidate, with the rank file missing, well formed or   *)
(* malformed.                                                              *)
(***************************************************************************)
\* a rank file whose content is not an array of strings
MalformedRankFile == [exists |-> TRUE, strings |-> FALSE, data |-> <<>>]

DiskFiles(conf) ==
    IF conf.path = undefined THEN {[jisyo |-> NoJisyoFile, rank |-> NoRankFile]}
    ELSE { [jisyo |-> j, rank |-> r] :
               j \in {NoJisyoFile, jisyoFile(JisyoText1, StartTime)},
               r \in IF conf.rankPath = undefined THEN {NoRankFile}
                     ELSE {NoRankFile, rankFile(<< <<"y">>, <<"x">> >>),
                           MalformedRankFile} }

InitDisk ==
    \E conf \in UserDictionaryPaths : \E fs \in DiskFiles(conf) :
        Started(conf, fs, BOOLEAN,
                UserDictionary_load(NewUserDictionary(<<>>, <<>>, <<>>), fs,
                                    conf.path, conf.rankPath),
                GlobalDictionaryConfig,
                loadGlobalDictionaries(GlobalDictionaryConfig))

NextDisk ==
    \/ \E t \in HenkanType, o \in Outcomes(immediatelyJisyoRW) :
           RegisterCandidate(t, <<"a", "b">>, <<"x">>, o)
    \/ \E t \in HenkanType, o \in Outcomes(immediatelyJisyoRW) :
           PurgeCandidate(t, <<"a", "b">>, <<"x">>, o)
    \/ Load
    \/ \E o \in Outcomes(TRUE) : Save(o)
    \/ ExternalWrite(JisyoText1)
    \/ Tick

SpecDisk == InitDisk /\ [][NextDisk]_vars

(***************************************************************************)
(* SpecStartup: the startup routine over two static dictionary files that  *)
(* can or cannot be read, with a named, an unknown or a detected encoding, *)
(* then the calls of connect() and close() of the server and lookups.      *)
(***************************************************************************)
\* the encodingName of an entry of globalDictionaryConfig: "" asks for
\* detection, "x-unknown" is no label of TextDecoder
StartupEncodings == {"", "euc-jp", "x-unknown"}

StaticFiles(dict) ==
    { [readable |-> r, detected |-> d, dict |-> dict] :
          r \in BOOLEAN, d \in DecoderLabels }

StartupConfigs ==
    { << [file |-> f1, encodingName |-> e1], [file |-> f2, encodingName |-> e2] >> :
          f1 \in StaticFiles(globalDictionary), f2 \in StaticFiles(otherDictionary),
          e1 \in StartupEncodings, e2 \in StartupEncodings }

NoUserDictionaryPath == [path |-> undefined, rankPath |-> undefined]

InitStartup ==
    \E config \in StartupConfigs :
        Started(NoUserDictionaryPath, [jisyo |-> NoJisyoFile, rank |-> NoRankFile],
                {FALSE},
                UserDictionary_load(NewUserDictionary(<<>>, <<>>, <<>>),
                                    [jisyo |-> NoJisyoFile, rank |-> NoRankFile],
                                    undefined, undefined),
                config, loadGlobalDictionaries(config))

NextStartup ==
    \/ Connect
    \/ ConnectFails
    \/ ConnectAgain
    \/ Close
    \/ \E t \in HenkanType, k \in Keys, cut \in Cuts :
           startup.returned /\ GetCandidate(t, k, cut)

SpecStartup == InitStartup /\ [][NextStartup]_vars

(***************************************************************************)
(* SpecCodec: readFile and writeFile in turn on a dictionary file of up to *)
(* CodecLines lines, well formed or not.                                   *)
(***************************************************************************)
CodecLines == 4

CodecSteps == 3

\* the lines of the files: the markers, an entry, an entry of the same key
\* with no "/" at its end, an entry with an empty candidate, a line without
\* a space and an empty line
CodecLineSet ==
    { okuriAriMarker,
      okuriNasiMarker,
      <<"a", "b", " ", "/", "x", "/", "y", "/">>,
      <<"a", "b", " ", "/", "z", "/", "w">>,
      <<"a", "1", " ", "/", "/", "x", "/">>,
      <<"a", "b", "c">>,
      <<>> }

RECURSIVE CodecTexts(_)
CodecTexts(n) ==
    IF n = 0 THEN {<<>>}
    ELSE CodecTexts(n - 1) \cup
         {l : l \in CodecLineSet} \cup
         {t \o <<"\n">> \o l : t \in CodecTexts(n - 1), l \in CodecLineSet}

CodecPath == [path |-> "jisyo", rankPath |-> undefined]

InitCodec ==
    \E text \in CodecTexts(CodecLines) :
        Started(CodecPath, [jisyo |-> jisyoFile(text, StartTime), rank |-> NoRankFile],
                {FALSE},
                [ud |-> [NewUserDictionary(<<>>, <<>>, <<>>) EXCEPT !.path = "jisyo"],
                 parsed |-> FALSE, caught |-> FALSE],
                GlobalDictionaryConfig, loadGlobalDictionaries(GlobalDictionaryConfig))

\* readFile(path, rankPath) of the user dictionary, with no rank path
ReadFile ==
    /\ steps < CodecSteps
    /\ userDictionary' = UserDictionary_readFile(userDictionary, files, "").ud
    /\ last' = [NoCall EXCEPT !.op = "readFile", !.parsed = TRUE, !.after = last.op]
    /\ ghost' = [ghost EXCEPT !.parses = @ + 1]
    /\ steps' = steps + 1
    /\ UNCHANGED <<files, now, dictionaries, startup, connected, immediatelyJisyoRW, connections, pending>>

\* writeFile(path, rankPath) of the user dictionary, with no rank path
WriteFile ==
    /\ steps < CodecSteps
    /\ files' = UserDictionary_writeFile(userDictionary, files, now, "written")
    /\ last' = [NoCall EXCEPT !.op = "writeFile", !.wrote = TRUE, !.after = last.op]
    /\ ghost' = [parses |-> 0, saved |-> TRUE]
    /\ steps' = steps + 1
    /\ UNCHANGED <<userDictionary, now, dictionaries, startup, connected,
                   immediatelyJisyoRW, connections, pending>>

NextCodec == ReadFile \/ WriteFile

SpecCodec == InitCodec /\ [][NextCodec]_vars

(***************************************************************************)
(* SpecNumber: getCandidate through NumberConvertWrapper for the keys of   *)
(* up to NumberKeyLen characters over a letter and two digits, on a static *)
(* dictionary of number patterns.                                          *)
(***************************************************************************)
NumberKeyLen == 3

\* a static dictionary with entries under keys with "#", under a key
\* without a digit, and under a key with a digit
numberDictionary ==
    [okuriAri  |-> << [key |-> <<"a", "#">>, value |-> << <<"#", "1">> >>] >>,
     okuriNasi |-> << [key |-> <<"#">>,
                       value |-> << <<"#", "1">>, <<"#", "2">>, <<"#">>,
                                    <<"x", "#", "0", "y">>, <<"#", "3">> >>],
                      [key |-> <<"a", "#">>,
                       value |-> << <<"#", "1", "x">>, <<"#", "9">>,
                                    <<"#", "2", "#", "1">> >>],
                      [key |-> <<"#", "a", "#">>,
                       value |-> << <<"#", "1", "a", "#", "2">>, <<"#", "2">> >>],
                      [key |-> <<"a">>,
                       value |-> << <<"#", "1", "x">>, <<"x", "#">> >>],
                      [key |-> <<"a", "1">>, value |-> << <<"y">> >>] >>]

NumberConfig ==
    << [file |-> [readable |-> TRUE, detected |-> "euc-jp", dict |-> numberDictionary],
        encodingName |-> "euc-jp"] >>

RECURSIVE NumberKeys(_)
NumberKeys(n) ==
    IF n = 0 THEN {<<>>}
    ELSE NumberKeys(n - 1) \cup
         {Append(k, c) : k \in NumberKeys(n - 1), c \in {"a", "0", "1"}}

InitNumber ==
    Started(NoUserDictionaryPath, [jisyo |-> NoJisyoFile, rank |-> NoRankFile],
            {FALSE},
            UserDictionary_load(NewUserDictionary(<<>>, <<>>, <<>>),
                                [jisyo |-> NoJisyoFile, rank |-> NoRankFile],
                                undefined, undefined),
            NumberConfig, loadGlobalDictionaries(NumberConfig))

NextNumber ==
    \E t \in HenkanType, k \in NumberKeys(NumberKeyLen) \ {<<>>} : GetCandidate(t, k, 0)

SpecNumber == InitNumber /\ [][NextNumber]_vars

(***************************************************************************)
(* SpecAsync: save() and load() as the event loop runs them. A call runs   *)
(* to its next await and waits there (pending); the calls of the Library   *)
(* and the other waiting calls run in between, and the file operations of  *)
(* calls that wait at the same time complete in any order. The writes of   *)
(* this specification succeed (their failures are in SpecFile).            *)
(***************************************************************************)
\* save() up to its first await: writeFile computes data from the tables and
\* calls Deno.writeTextFile(path, data)
StartSave ==
    /\ userDictionary.path # ""
    /\ \E i \in 1..MaxInFlight :
           /\ pending.saves[i].pc = "idle"
           /\ \A j \in 1..(i - 1) : pending.saves[j].pc # "idle"
           /\ pending' = [pending EXCEPT !.saves[i] =
                             [pc |-> "jisyo",
                              data |-> encodeJisyo(userDictionary.okuriAri,
                                                   userDictionary.okuriNasi),
                              rankData |-> <<>>,
                              rank |-> userDictionary.rank]]
    /\ last' = [NoCall EXCEPT !.op = "save", !.after = last.op]
    /\ UNCHANGED <<userDictionary, files, now, dictionaries, startup, connected,
                   connections, immediatelyJisyoRW, ghost, steps>>

\* save() number i from the await it waits at to its next one: the
\* dictionary file is written, then rankData is computed from #rank and
\* Deno.writeTextFile(rankPath, rankData) is called; the rank file is
\* written, then Deno.stat(path) is called; #loadTime is set
SaveContinues(i) ==
    \/ /\ pending.saves[i].pc = "jisyo"
       /\ files' = [files EXCEPT !.jisyo = jisyoFile(pending.saves[i].data, now)]
       /\ pending' = IF userDictionary.rankPath = ""
                     THEN [pending EXCEPT !.saves[i].pc = "stat"]
                     ELSE [pending EXCEPT !.saves[i].pc = "rank",
                                          !.saves[i].rankData =
                                              encodeRank(userDictionary.rank)]
       /\ ghost' = [parses |-> 0, saved |-> userDictionary.rankPath = ""]
       /\ UNCHANGED <<userDictionary, now, dictionaries, startup, connected,
                      connections, immediatelyJisyoRW, last, steps>>
    \/ /\ pending.saves[i].pc = "rank"
       /\ files' = [files EXCEPT !.rank = rankFile(pending.saves[i].rankData)]
       /\ pending' = [pending EXCEPT !.saves[i].pc = "stat"]
       /\ ghost' = [ghost EXCEPT !.saved = TRUE]
       /\ UNCHANGED <<userDictionary, now, dictionaries, startup, connected,
                      connections, immediatelyJisyoRW, last, steps>>
    \/ /\ pending.saves[i].pc = "stat"
       /\ userDictionary' = [userDictionary EXCEPT !.loadTime =
                                IF files.jisyo.exists THEN files.jisyo.mtime ELSE -1]
       /\ pending' = [pending EXCEPT !.saves[i] = NoPending.saves[i]]
       /\ UNCHANGED <<files, now, dictionaries, startup, connected, connections,
                      immediatelyJisyoRW, last, ghost, steps>>

\* load() with no argument up to its first await: Deno.stat(path) is called
StartLoad ==
    /\ userDictionary.path # ""
    /\ pending.load.pc = "idle"
    /\ pending' = [pending EXCEPT !.load.pc = "stat"]
    /\ last' = [NoCall EXCEPT !.op = "load", !.after = last.op]
    /\ UNCHANGED <<userDictionary, files, now, dictionaries, startup, connected,
                   connections, immediatelyJisyoRW, ghost, steps>>

\* load() from the await it waits at to its next one: the modification time
\* is compared, then readFile replaces the tables by empty Maps and calls
\* Deno.readTextFile(path); the lines are set in these Maps, then
\* Deno.readTextFile(rankPath) is called; #rank is replaced
LoadContinues ==
    \/ /\ pending.load.pc = "stat"
       /\ IF ~files.jisyo.exists
          THEN /\ userDictionary' = [userDictionary EXCEPT !.cachedPrefix = <<>>]
               /\ pending' = [pending EXCEPT !.load = NoPending.load]
          ELSE IF files.jisyo.mtime = userDictionary.loadTime
          THEN /\ userDictionary' = userDictionary
               /\ pending' = [pending EXCEPT !.load = NoPending.load]
          ELSE /\ userDictionary' = [userDictionary EXCEPT
                                        !.loadTime = files.jisyo.mtime,
                                        !.okuriAri = <<>>, !.okuriNasi = <<>>]
               /\ pending' = [pending EXCEPT !.load =
                                 [pc |-> "jisyo",
                                  before |-> [okuriAri |-> userDictionary.okuriAri,
                                              okuriNasi |-> userDictionary.okuriNasi]]]
       /\ UNCHANGED <<files, now, dictionaries, startup, connected, connections,
                      immediatelyJisyoRW, last, ghost, steps>>
    \/ /\ pending.load.pc = "jisyo"
       /\ userDictionary' =
              [userDictionary EXCEPT
                  !.okuriAri = parseLines(split(files.jisyo.text, "\n"), -1,
                                          userDictionary.okuriAri,
                                          userDictionary.okuriNasi).okuriAri,
                  !.okuriNasi = parseLines(split(files.jisyo.text, "\n"), -1,
                                           userDictionary.okuriAri,
                                           userDictionary.okuriNasi).okuriNasi,
                  !.cachedPrefix = IF userDictionary.rankPath = "" THEN <<>> ELSE @]
       /\ pending' = IF userDictionary.rankPath = ""
                     THEN [pending EXCEPT !.load = NoPending.load]
                     ELSE [pending EXCEPT !.load.pc = "rank"]
       /\ last' = [NoCall EXCEPT !.op = "load", !.parsed = TRUE, !.after = last.op]
       /\ ghost' = [ghost EXCEPT !.parses = @ + 1]
       /\ UNCHANGED <<files, now, dictionaries, startup, connected, connections,
                      immediatelyJisyoRW, steps>>
    \/ /\ pending.load.pc = "rank"
       /\ userDictionary' =
              [userDictionary EXCEPT
                  !.rank = IF files.rank.exists /\ files.rank.strings
                           THEN decodeRank(files.rank.data) ELSE @,
                  !.cachedPrefix = <<>>]
       /\ pending' = [pending EXCEPT !.load = NoPending.load]
       /\ last' = [NoCall EXCEPT !.op = "load", !.parsed = TRUE,
                                 !.caught = ~(files.rank.exists /\ files.rank.strings),
                                 !.after = last.op]
       /\ UNCHANGED <<files, now, dictionaries, startup, connected, connections,
                      immediatelyJisyoRW, ghost, steps>>

\* the user dictionary of the files jisyo and rank, loaded by the startup
\* routine from the canonical dictionary file
InitAsync ==
    Started([path |-> "jisyo", rankPath |-> "rank"],
            [jisyo |-> jisyoFile(JisyoText1, StartTime),
             rank |-> rankFile(<< <<"y">>, <<"x">> >>)],
            {FALSE},
            UserDictionary_load(NewUserDictionary(<<>>, <<>>, <<>>),
                                [jisyo |-> jisyoFile(JisyoText1, StartTime),
                                 rank |-> rankFile(<< <<"y">>, <<"x">> >>)],
                                "jisyo", "rank"),
            GlobalDictionaryConfig,
            loadGlobalDictionaries(GlobalDictionaryConfig))

NextAsync ==
    \/ \E c \in {<<"x">>, <<"w">>} :
           RegisterCandidate("okurinasi", <<"a", "b">>, c, "written")
    \/ GetCandidate("okurinasi", <<"a", "b">>, 0)
    \/ StartSave
    \/ \E i \in 1..MaxInFlight : SaveContinues(i)
    \/ StartLoad
    \/ LoadContinues
    \/ ExternalWrite(JisyoText2)
    \/ Tick

SpecAsync == InitAsync /\ [][NextAsync]_vars

(***************************************************************************)
(* The properties of the calls.                                            *)
(***************************************************************************)
\* a step is the call op
Called(op) == steps' = steps + 1 /\ last'.op = op

\* the other henkan type
otherType(type) == IF type = "okuriari" THEN "okurinasi" ELSE "okuriari"

\* the entries of a table under the keys other than word
otherEntries(table, word) == {e \in Range(table) : e.key # word}

\* the candidates of a list other than c, in the order of the list
filtered(list, c) == SelectSeq(list, LAMBDA x : x # c)

\* the list of (type, word) in the user dictionary
listOf(ud, type, word) == mapGet(target(ud, type), word, <<>>)

\* list holds no string twice
noDuplicates(list) == \A i, j \in 1..Len(list) : list[i] = list[j] => i = j

\* C1: after registerCandidate(type, key, c) with c not empty, the list of
\* (type, key) is [c] followed by the candidates of the earlier list L other
\* than c in their order; the other keys of the table and the table of the
\* other henkan type are unchanged.
RegisterCandidatePutsFirst ==
    [][(Called("registerCandidate") /\ last'.cand # <<>>) =>
          /\ listOf(userDictionary', last'.type, last'.key)
                 = <<last'.cand>>
                   \o filtered(listOf(userDictionary, last'.type, last'.key), last'.cand)
          /\ otherEntries(target(userDictionary', last'.type), last'.key)
                 = otherEntries(target(userDictionary, last'.type), last'.key)
          /\ target(userDictionary', otherType(last'.type))
                 = target(userDictionary, otherType(last'.type))]_vars

\* the places of list that hold a string for the first time
firstPlaces(list) == {i \in 1..Len(list) : \A j \in 1..(i - 1) : list[j] # list[i]}

\* the strings of list at places, in the order of the places
atPlaces(list, places) ==
    [k \in 1..Cardinality(places) |->
        list[CHOOSE p \in places : Cardinality({q \in places : q < p}) = k - 1]]

\* result is concat with every string kept at its first occurrence only
mergedFrom(result, concat) ==
    /\ noDuplicates(result)
    /\ Range(result) = Range(concat)
    /\ result = atPlaces(concat, firstPlaces(concat))

\* C2: Library.getCandidate(type, key) returns the results of the user
\* dictionary, the static dictionary and the server, in this order, with
\* every candidate kept at its first occurrence only: no string twice, the
\* strings that some source returned and no other, in first-seen order.
GetCandidateMerges ==
    last.op = "getCandidate" =>
        /\ mergedFrom(last.result, flat(last.sources))
        /\ last.sources[1]
               = NumberConvertWrapper_getCandidate(
                     UserDictionary_getCandidate(userDictionary, last.type,
                                                 replaceDigitRuns(last.key)),
                     last.key)

\* a getCandidate of a key that the three sources answer, with a candidate
\* that more than one of them returns
GetCandidateMergesWitness ==
    /\ last.op = "getCandidate"
    /\ \A i \in 1..3 : last.sources[i] # <<>>
    /\ ~noDuplicates(flat(last.sources))
    /\ \E c \in Range(last.sources[1]) : c \in Range(last.sources[3])
    /\ Len(last.result) >= 3

\* the first element of list is c
firstIs(list, c) == list # <<>> /\ Head(list) = c

\* C3: right after Library.registerCandidate(type, key, c) with c not
\* empty, Library.getCandidate(type, key) returns a list whose first element
\* is c, for every key, keys with decimal digits too.
RegisteredCandidateIsFirst ==
    (last.op = "registerCandidate" /\ last.cand # <<>>) =>
        \A cut \in Cuts :
            firstIs(Library_getCandidate(userDictionary, dictionaries, connected,
                                         last.type, last.key, cut),
                    last.cand)

\* C4: purgeCandidate(type, key, c) removes c from the list of (type, key):
\* the key is removed when no candidate is left, the other candidates keep
\* their order otherwise, and the table is unchanged when c is not in the
\* list or the key is absent; the table of the other henkan type is unchanged.
PurgeCandidateRemoves ==
    [][Called("purgeCandidate") =>
          /\ last'.cand \notin Range(listOf(userDictionary, last'.type, last'.key))
                 => target(userDictionary', last'.type)
                        = target(userDictionary, last'.type)
          /\ (/\ last'.cand \in Range(listOf(userDictionary, last'.type, last'.key))
              /\ filtered(listOf(userDictionary, last'.type, last'.key),
                          last'.cand) = <<>>)
                 => ~mapHas(target(userDictionary', last'.type), last'.key)
          /\ filtered(listOf(userDictionary, last'.type, last'.key), last'.cand) # <<>>
                 => /\ mapHas(target(userDictionary', last'.type), last'.key)
                    /\ listOf(userDictionary', last'.type, last'.key)
                           = filtered(listOf(userDictionary, last'.type, last'.key),
                                      last'.cand)
          /\ otherEntries(target(userDictionary', last'.type), last'.key)
                 = otherEntries(target(userDictionary, last'.type), last'.key)
          /\ target(userDictionary', otherType(last'.type))
                 = target(userDictionary, otherType(last'.type))]_vars

\* a purgeCandidate of a candidate of a list of two or more, which leaves
\* the others
PurgeCandidateRemovesWitness ==
    /\ last.op = "purgeCandidate"
    /\ last.cand \in Range(last.before)
    /\ Len(last.before) >= 2
    /\ listOf(userDictionary, last.type, last.key) = filtered(last.before, last.cand)
    /\ listOf(userDictionary, last.type, last.key) # <<>>


\* the tables, the rank map and the completion cache of two objects agree
sameContent(ud1, ud2) ==
    /\ ud1.okuriAri = ud2.okuriAri
    /\ ud1.okuriNasi = ud2.okuriNasi
    /\ ud1.rank = ud2.rank
    /\ ud1.cachedPrefix = ud2.cachedPrefix
    /\ ud1.cachedFeed = ud2.cachedFeed
    /\ ud1.cachedCandidates = ud2.cachedCandidates

\* text has a line for the key word
hasLineFor(text, word) ==
    \E line \in Range(split(text, "\n")) : startsWith(line, word \o <<" ">>)

\* a line for word in text stands for an entry that a table of ud holds
linesFromEntries(text, ud, word) ==
    hasLineFor(text, word) => mapHas(ud.okuriAri, word) \/ mapHas(ud.okuriNasi, word)

CacheAnswersAsSearch ==
    \A p \in Prefixes, f \in Feeds :
        UserDictionary_getCandidates(userDictionary, p, f)
            = searchCandidates(userDictionary.okuriNasi, p, f)

\* the candidates of the okuri-nasi entries whose key starts with prefix
candidatesUnder(ud, prefix) ==
    UNION {Range(e.value) : e \in {x \in Range(ud.okuriNasi) : startsWith(x.key, prefix)}}

\* C7: getRanks(prefix) returns the rank entries of the candidates of the
\* okuri-nasi entries, as they are now, whose key starts with prefix, and no
\* other rank entry.
GetRanksOfCurrentEntries ==
    \A p \in Prefixes :
        Range(Library_getRanks(userDictionary, p))
            = {e \in Range(userDictionary.rank) : e.key \in candidatesUnder(userDictionary, p)}

\* the tables and the rank map of two objects agree
sameTables(ud1, ud2) ==
    /\ ud1.okuriAri = ud2.okuriAri
    /\ ud1.okuriNasi = ud2.okuriNasi
    /\ ud1.rank = ud2.rank

\* C8: load() while the modification time of the dictionary file equals the
\* recorded load time does not parse and leaves the two tables and the rank
\* map as they were; between two writes of the file at most one parse happens.
LoadParsesOnce ==
    /\ [](ghost.parses <= 1)
    /\ [][(/\ Called("load")
           /\ userDictionary.path # ""
           /\ files.jisyo.exists
           /\ files.jisyo.mtime = userDictionary.loadTime) =>
              /\ ~last'.parsed
              /\ sameTables(userDictionary', userDictionary)]_vars

\* a load() that did not parse, after a registerCandidate changed the tables
\* in memory since the one parse of the file
LoadParsesOnceWitness ==
    /\ last.op = "load"
    /\ last.after = "registerCandidate"
    /\ ~last.parsed
    /\ ghost.parses = 1
    /\ files.jisyo.exists
    /\ files.jisyo.mtime = userDictionary.loadTime
    /\ userDictionary.okuriNasi # decodeJisyo(files.jisyo.text).okuriNasi

\* C9: after a save() that wrote the files, and no other write of the
\* dictionary file since, load() does not parse and leaves the two tables
\* and the rank map as they were.
LoadAfterSaveKeeps ==
    [][(ghost.saved /\ Called("load")) =>
          /\ ~last'.parsed
          /\ sameTables(userDictionary', userDictionary)]_vars

\* a load() right after a save() that wrote the file at a later time than
\* the time of startup
LoadAfterSaveKeepsWitness ==
    /\ last.op = "load"
    /\ last.after = "save"
    /\ ghost.saved
    /\ ~last.parsed
    /\ files.jisyo.mtime > StartTime
    /\ files.jisyo.mtime = userDictionary.loadTime


\* two tables hold the same entries, whatever the order of their keys
sameEntries(m1, m2) == Range(m1) = Range(m2)

\* the last call is a registerCandidate of a candidate that is not empty,
\* followed by a save() that wrote the files: the save() of the call when
\* immediatelyJisyoRW is set, or the next call
registeredAndSaved ==
    /\ last.cand # <<>>
    /\ last.wrote
    /\ \/ last.op = "registerCandidate"
       \/ last.op = "save" /\ last.after = "registerCandidate"

\* fresh, an object that loaded the files, returns for (type, word) the list
\* of ud, with c first, and holds the entries of ud
reproduces(fresh, ud, type, word, c) ==
    /\ UserDictionary_getCandidate(fresh, type, word)
           = UserDictionary_getCandidate(ud, type, word)
    /\ firstIs(UserDictionary_getCandidate(fresh, type, word), c)
    /\ sameEntries(fresh.okuriAri, ud.okuriAri)
    /\ sameEntries(fresh.okuriNasi, ud.okuriNasi)

\* new UserDictionary() that load()s the path and the rank path of ud
freshLoad(ud, fs) ==
    UserDictionary_load(NewUserDictionary(<<>>, <<>>, <<>>), fs, ud.path, ud.rankPath).ud

\* no key of the table holds a space or a newline, no candidate a "/" or a
\* newline
wellFormed(table) ==
    \A e \in Range(table) :
        /\ Range(e.key) \cap {" ", "\n"} = {}
        /\ \A c \in Range(e.value) : Range(c) \cap {"/", "\n"} = {}

\* C10 as stated: for a key without space or newline and a candidate c, not
\* empty, without "/" or newline, after registerCandidate(type, key, c) and
\* save(), a new UserDictionary that loads the same path returns for (type,
\* key) the list of the saving object, with c first, and holds every other
\* entry of the two tables.
SaveLoadRoundTripAsStated ==
    (/\ registeredAndSaved
     /\ Range(last.key) \cap {" ", "\n"} = {}
     /\ Range(last.cand) \cap {"/", "\n"} = {}) =>
        reproduces(freshLoad(userDictionary, files), userDictionary,
                   last.type, last.key, last.cand)

\* C10: when, besides, no key of the two tables holds a space or a newline
\* and no candidate of theirs a "/" or a newline, after
\* registerCandidate(type, key, c) and a save() that wrote the files, a new
\* UserDictionary that loads the same path returns for (type, key) the list
\* of the saving object, with c first, and holds every other entry of the
\* two tables.
SaveLoadRoundTrip ==
    (/\ registeredAndSaved
     /\ wellFormed(userDictionary.okuriAri)
     /\ wellFormed(userDictionary.okuriNasi)) =>
        reproduces(freshLoad(userDictionary, files), userDictionary,
                   last.type, last.key, last.cand)

\* a save() after the registerCandidate of a candidate of a key that holds
\* another candidate too, in tables that hold another entry
SaveLoadRoundTripWitness ==
    /\ registeredAndSaved
    /\ last.op = "save"
    /\ wellFormed(userDictionary.okuriAri)
    /\ wellFormed(userDictionary.okuriNasi)
    /\ Len(UserDictionary_getCandidate(userDictionary, last.type, last.key)) >= 2
    /\ Len(userDictionary.okuriAri) + Len(userDictionary.okuriNasi) >= 2
    /\ files.jisyo.text = encodeJisyo(userDictionary.okuriAri, userDictionary.okuriNasi)
    /\ reproduces(freshLoad(userDictionary, files), userDictionary,
                  last.type, last.key, last.cand)



\* C20: Library.getCandidates with a prefix of fewer than 2 characters
\* returns the empty list, for every feed, and asks no dictionary: the user
\* dictionary, its completion cache included, is left as it was.
ShortPrefixGivesNothing ==
    [][Called("getCandidates") /\ Len(last'.prefix) < 2
           => last'.result = <<>> /\ userDictionary' = userDictionary]_vars

\* a getCandidates of a one-character prefix that begins a key of the user
\* dictionary and a key of a static dictionary
ShortPrefixGivesNothingWitness ==
    /\ last.op = "getCandidates"
    /\ Len(last.prefix) = 1
    /\ \E i \in 1..Len(userDictionary.okuriNasi) :
           startsWith(userDictionary.okuriNasi[i].key, last.prefix)
    /\ \E i \in 1..Len(dictionaries[1].okuriNasi) :
           startsWith(dictionaries[1].okuriNasi[i].key, last.prefix)
    /\ last.result = <<>>


\* the candidates that a whole response names: none when it begins with
\* "4", else the fields between the first and the last "/"
responseCandidates(response) ==
    IF response[1] = "4" THEN <<>> ELSE slice(split(response, "/"), 1, -1)

\* C16: getCandidate of a connected SkkServer returns the candidates of the
\* response up to its newline, [c1, ..., cn] for "1/c1/.../cn/\n" and
\* nothing for a response that begins with "4", whatever the reads the
\* response arrives in.
ServerResultIgnoresReads ==
    [][Called("getCandidate") /\ connected
           => last'.sources[Len(last'.sources)]
                  = responseCandidates(serverResponse(last'.key))]_vars


\* the line "KEY /C1/C2/.../" of an entry: the key, " /", then every
\* candidate followed by "/"
lineFor(e) ==
    e.key \o <<" ", "/">> \o flat([i \in 1..Len(e.value) |-> e.value[i] \o <<"/">>])

\* how many entries of table come before e in the order of the keys (the
\* order of localeCompare), ascending or descending
keysBefore(table, e, descending) ==
    Cardinality({i \in 1..Len(table) :
                    IF descending THEN localeCompare(table[i].key, e.key) > 0
                    ELSE localeCompare(table[i].key, e.key) < 0})

\* lines, from the one after start, are the lines of the entries of table,
\* one for each, in the order of the keys
sectionOf(lines, start, table, descending) ==
    \A i \in 1..Len(table) :
        lines[start + 1 + keysBefore(table, table[i], descending)] = lineFor(table[i])

\* lines is: the okuri-ari marker, the okuri-ari entries in descending
\* order, the okuri-nasi marker, the okuri-nasi entries in ascending order,
\* and the empty piece after the final newline
writtenForm(lines, ari, nasi) ==
    /\ Len(lines) = Len(ari) + Len(nasi) + 3
    /\ lines[1] = okuriAriMarker
    /\ sectionOf(lines, 1, ari, TRUE)
    /\ lines[Len(ari) + 2] = okuriNasiMarker
    /\ sectionOf(lines, Len(ari) + 2, nasi, FALSE)
    /\ lines[Len(lines)] = <<>>

\* C12: the text that save() writes is the okuri-ari marker line, one line
\* "KEY /C1/C2/.../" per okuri-ari entry with the keys in descending order,
\* the okuri-nasi marker line, one such line per okuri-nasi entry with the
\* keys in ascending order, and a final newline; every entry of a table
\* has exactly one line, in the section of its table.
SaveWritesSortedSections ==
    last.wrote =>
        writtenForm(split(files.jisyo.text, "\n"),
                    userDictionary.okuriAri, userDictionary.okuriNasi)

\* a save of two okuri-ari and two okuri-nasi entries, the okuri-nasi
\* entries in the table in another order than in the file
SaveWritesSortedSectionsWitness ==
    /\ last.wrote
    /\ Len(userDictionary.okuriAri) = 2
    /\ Len(userDictionary.okuriNasi) = 2
    /\ localeCompare(userDictionary.okuriNasi[1].key,
                     userDictionary.okuriNasi[2].key) > 0
    /\ \E i \in 1..2 : Len(userDictionary.okuriNasi[i].value) > 1


\* C14: when the write of the dictionary file or of the rank file fails
\* during a save() that the caller invoked, the failure is reported to the
\* caller (the call throws) and the recorded load time stays as it was.
SaveReportsWriteFailure ==
    [][Called("save") /\ last'.outcome # "written"
           => /\ last'.threw
              /\ userDictionary'.loadTime = userDictionary.loadTime]_vars


\* C13: when a rank path is configured and the content of the rank file is
\* not an array of strings, the load() that reads the files fails with an
\* error that reaches its caller: the call throws.
RankFormatErrorReachesCaller ==
    /\ last.op = "load"
    /\ last.parsed
    /\ userDictionary.rankPath # ""
    /\ files.rank.exists
    /\ ~files.rank.strings
    => last.threw


\* a step is a registerCandidate or a purgeCandidate of the Library
Mutated == Called("registerCandidate") \/ Called("purgeCandidate")

\* the step ends with a save() that wrote: the dictionary file holds the
\* tables as the step leaves them, written at the time of the step, the
\* rank file (when one is configured) holds the ranking, and the load time
\* is that of the write
savedByStep ==
    /\ last'.wrote
    /\ files'.jisyo.exists
    /\ files'.jisyo.mtime = now
    /\ writtenForm(split(files'.jisyo.text, "\n"),
                   userDictionary'.okuriAri, userDictionary'.okuriNasi)
    /\ userDictionary'.loadTime = now
    /\ userDictionary.rankPath # ""
           => files'.rank = rankFile(encodeRank(userDictionary'.rank))

\* C15: Library.registerCandidate and Library.purgeCandidate change no
\* source but the user dictionary (the static dictionaries and the
\* connection of the server stay as they were); with immediatelyJisyoRW off
\* they leave the dictionary file and the rank file as they were, which
\* change only by a save() (or by another program); with the flag on a
\* save() runs before the call completes, so that a call whose writes
\* succeed leaves the files holding the changed dictionary.
MutationsReachOnlyUserDictionary ==
    [][/\ Mutated => /\ dictionaries' = dictionaries
                     /\ connected' = connected
       /\ Mutated /\ ~immediatelyJisyoRW => files' = files /\ ~last'.wrote
       /\ Mutated /\ immediatelyJisyoRW /\ userDictionary.path # ""
              /\ last'.outcome = "written" => savedByStep
       /\ files' # files
              => \/ Called("save")
                 \/ Called("external")
                 \/ immediatelyJisyoRW /\ Mutated]_vars

\* a purgeCandidate under immediatelyJisyoRW that removed a candidate and
\* wrote the dictionary file and the rank file
MutationsReachOnlyUserDictionaryWitness ==
    /\ last.op = "purgeCandidate"
    /\ immediatelyJisyoRW
    /\ last.wrote
    /\ userDictionary.rankPath # ""
    /\ last.cand \in Range(last.before)
    /\ last.cand \notin Range(UserDictionary_getCandidate(userDictionary,
                                                          last.type, last.key))


\* an entry of globalDictionaryConfig whose file cannot be read or decoded
cannotLoad(entry) ==
    \/ ~entry.file.readable
    \/ entry.encodingName \notin DecoderLabels \cup {""}

\* the static dictionaries of the Library are those of the configuration:
\* empty for a file that cannot be loaded, the tables of the file otherwise
failedAreEmpty(config, dicts) ==
    /\ Len(dicts) = Len(config)
    /\ \A i \in 1..Len(config) :
           dicts[i] = IF cannotLoad(config[i]) THEN NewSKKDictionary
                      ELSE config[i].file.dict

\* C17: the startup routine returns a Library whatever static dictionary
\* files cannot be read or decoded, with a named or a detected encoding,
\* and whether or not the connection to the server fails: no failure
\* leaves the routine or escapes its handlers, a static dictionary that
\* failed is empty, the others hold their files, and a server that is not
\* connected answers a lookup with the empty list.
StartupAlwaysReturns ==
    /\ startup.returned
    /\ ~startup.unhandled
    /\ failedAreEmpty(startup.config, dictionaries)
    /\ last.op = "getCandidate" /\ ~connected
           => last.sources[Len(last.sources)] = <<>>


\* C11: for the tables t that readFile decodes from any text (with
\* malformed lines, repeated keys, empty candidates or no "/" at the end of
\* a line), decoding the text that writeFile encodes from t gives t again:
\* the same keys with the same candidate lists, in both tables.
CodecRoundTrip ==
    [][Called("readFile") /\ last.op = "writeFile" /\ last.after = "readFile"
           => /\ sameEntries(userDictionary'.okuriAri, userDictionary.okuriAri)
              /\ sameEntries(userDictionary'.okuriNasi, userDictionary.okuriNasi)]_vars

\* a text decoded, encoded and decoded again, whose tables hold two
\* entries, one with an empty candidate first and one whose line had no "/"
\* at its end
CodecRoundTripWitness ==
    /\ last.op = "readFile"
    /\ last.after = "writeFile"
    /\ steps = 3
    /\ Len(userDictionary.okuriNasi) = 2
    /\ mapGet(userDictionary.okuriNasi, <<"a", "1">>, <<>>) = << <<>>, <<"x">> >>
    /\ mapGet(userDictionary.okuriNasi, <<"a", "b">>, <<>>) = << <<"z">>, <<>> >>


\* the places of key that begin a run of digits or hold no digit
keptPlaces(key) ==
    {i \in 1..Len(key) : key[i] \in Digits => (i = 1 \/ key[i - 1] \notin Digits)}

\* key with every maximal run of digits replaced by one "#"
withOneMarkerPerRun(key) ==
    atPlaces([i \in 1..Len(key) |-> IF key[i] \in Digits THEN "#" ELSE key[i]],
             keptPlaces(key))

hasDigit(key) == \E i \in 1..Len(key) : key[i] \in Digits

rendered(k, e) ==
    IF k = <<"#", "1">> THEN [i \in 1..Len(e) |-> zenkakuNumbers[digitValue(e[i]) + 1]]
    ELSE IF k = <<"#", "2">> THEN [i \in 1..Len(e) |-> kanjiNumbers[digitValue(e[i]) + 1]]
    ELSE IF k # <<>> /\ Head(k) = "#" THEN e
    ELSE k

\* the pieces ks of a candidate (text, marker, text, ...) with every marker
\* replaced by the rendering of the digit run at its place in es
substituted(ks, es) == flat([i \in 1..Len(ks) |-> rendered(ks[i], es[i])])

\* the claim speaks of the candidate: it has no more markers than the key
\* has digit runs, and no marker "#3"
spokenOf(ks, es) ==
    /\ Len(ks) <= Len(es)
    /\ \A i \in 1..Len(ks) : ks[i] # <<"#", "3">>

convertedAsStated(pattern, ks, es, result) ==
    spokenOf(ks, es) => result = substituted(ks, es)

\* C19: for a key with digit runs and a candidate with no more markers than
\* the key has runs, the i-th marker is replaced by the i-th digit run and
\* the other text is kept: the digits unchanged for the suffixes 0 and 4
\* to 9 (and none), one full-width digit per digit for suffix 1 and one
\* kanji digit per digit for suffix 2, runs with leading zeros included.
MarkersTakeDigitRuns ==
    last.op = "getCandidate" /\ hasDigit(last.key) =>
        \A i \in 1..Len(last.sources[2]) :
            convertedAsStated(
                SKKDictionary_getCandidate(dictionaries[1], last.type,
                                           replaceDigitRuns(last.key))[i],
                splitMarkers(SKKDictionary_getCandidate(dictionaries[1], last.type,
                                           replaceDigitRuns(last.key))[i], <<>>),
                splitDigitRuns(last.key, <<>>, FALSE),
                last.sources[2][i])


\* the candidate list of an entry is not empty and holds no string twice
\* and no empty string
uniqueCandidates(list) ==
    /\ list # <<>>
    /\ noDuplicates(list)
    /\ <<>> \notin Range(list)

\* C23: in every state reached by registerCandidate, purgeCandidate and
\* load, from any dictionary text, every entry of the two tables of the
\* user dictionary has a candidate list that is not empty and holds no
\* string twice and no empty string.
EntriesAreUnique ==
    /\ \A e \in Range(userDictionary.okuriAri) : uniqueCandidates(e.value)
    /\ \A e \in Range(userDictionary.okuriNasi) : uniqueCandidates(e.value)


\* C27: for a prefix of 2 characters or more and the empty feed, every key
\* of the result of Library.getCandidates begins with the prefix and is there
\* once, and no candidate list of the result holds a string twice or an
\* empty string, whatever the user dictionary, the static dictionaries and
\* the server hold.
CompletionsBeginWithPrefix ==
    last.op = "getCandidates" /\ Len(last.prefix) >= 2 /\ last.feed = <<>> =>
        /\ \A i \in 1..Len(last.result) : startsWith(last.result[i].key, last.prefix)
        /\ \A i, j \in 1..Len(last.result) :
               last.result[i].key = last.result[j].key => i = j
        /\ \A i \in 1..Len(last.result) :
               /\ noDuplicates(last.result[i].value)
               /\ <<>> \notin Range(last.result[i].value)


\* the rank of candidate c in the rank map (none: -1)
rankOf(ud, c) == mapGet(ud.rank, c, -1)

\* C25: under a clock that never goes backwards, when the latest
\* registration of a candidate c comes after the latest registration of a
\* candidate d, the rank of c is strictly greater than the rank of d; here c
\* is registered by the call right after the call that registered d.
RankFollowsRecency ==
    [][(/\ Called("registerCandidate")
        /\ last.op = "registerCandidate"
        /\ last.cand # <<>>
        /\ last'.cand # <<>>
        /\ last'.cand # last.cand)
           => rankOf(userDictionary', last'.cand) > rankOf(userDictionary', last.cand)]_vars


\* C26: after any calls of connect(), getCandidate() and close(), the
\* SkkServer has at most one connection that it opened and did not close,
\* and no request was written to a connection that was closed.
AtMostOneConnection ==
    /\ connections.open <= 1
    /\ ~connections.wroteClosed


\* save() number i writes a file in this step
saveWrites(i) ==
    /\ pending.saves[i].pc \in {"jisyo", "rank"}
    /\ pending'.saves[i].pc # pending.saves[i].pc

\* save() number i is between the start of its write of the dictionary file
\* and the end of its write of the rank file
saveIsWriting(i) == pending.saves[i].pc \in {"jisyo", "rank"}

noSavePending == \A i \in 1..MaxInFlight : pending.saves[i].pc = "idle"

\* C21: overlapping saves are serialized. No save writes a file while
\* another save is between the start of its write of the dictionary file and
\* the end of its write of the rank file; and when every save has finished,
\* no call having come after the start of the last one, the dictionary file
\* is the text of the tables in memory.
SavesAreSerialized ==
    /\ [][\A i, j \in 1..MaxInFlight :
              saveWrites(i) /\ j # i => ~saveIsWriting(j)]_vars
    /\ [](last.op = "save" /\ noSavePending /\ pending.load.pc = "idle"
              => files.jisyo.text = encodeJisyo(userDictionary.okuriAri,
                                                userDictionary.okuriNasi))


\* a load() is re-parsing the dictionary file: readFile has replaced the
\* tables and waits for the text of the file
loadReparses == pending.load.pc = "jisyo"

\* the user dictionary with the tables given
withTables(ud, tables) ==
    [ud EXCEPT !.okuriAri = tables.okuriAri, !.okuriNasi = tables.okuriNasi]

\* the user dictionary with the complete tables before the load in progress,
\* and with the complete tables after it
beforeLoad == withTables(userDictionary, pending.load.before)

afterLoad == withTables(userDictionary, decodeJisyo(files.jisyo.text))

\* a save() starts in this step: the text it writes
startsSave(i) == pending.saves[i].pc = "idle" /\ pending'.saves[i].pc = "jisyo"

\* the lookup of this step, while a load() re-parses, returns the list of
\* the tables before the load or of the tables after it
lookupDuringLoad ==
    Called("getCandidate") /\ loadReparses =>
        last'.result \in
            { Library_getCandidate(ud, dictionaries, connected, last'.type,
                                   last'.key, last'.cut) :
                  ud \in {beforeLoad, afterLoad} }

\* the registerCandidate of this step, while a load() re-parses, finds the
\* list of the tables before the load or of the tables after it
registerDuringLoad ==
    Called("registerCandidate") /\ loadReparses =>
        last'.before \in
            { UserDictionary_getCandidate(ud, last'.type, last'.key) :
                  ud \in {beforeLoad, afterLoad} }

\* the save() that starts in this step, while a load() re-parses, builds the
\* text that it writes from the tables before the load or after it
saveDuringLoad ==
    \A i \in 1..MaxInFlight :
        startsSave(i) /\ loadReparses =>
            pending'.saves[i].data \in
                { encodeJisyo(ud.okuriAri, ud.okuriNasi) :
                      ud \in {beforeLoad, afterLoad} }

\* C22: while a load() re-parses the dictionary file, a getCandidate, a
\* registerCandidate and a save() see the complete tables before the load
\* or the complete tables after it, never tables that are emptied or partly
\* filled.
LoadIsAtomic ==
    [][lookupDuringLoad /\ registerDuringLoad /\ saveDuringLoad]_vars


\* the candidates of the entries of a dictionary file with the text given
candidatesOf(text) ==
    UNION { Range(e.value) : e \in Range(decodeJisyo(text).okuriAri)
                                 \cup Range(decodeJisyo(text).okuriNasi) }

\* C24: the two files of one save() come from the same state of the user
\* dictionary. Once a save() has written both files, every candidate of its
\* rank file is in an entry of its dictionary file or was ranked already when
\* the text of the dictionary file was computed.
RankFileOfTheSameState ==
    \A i \in 1..MaxInFlight :
        pending.saves[i].pc = "stat" =>
            \A c \in Range(pending.saves[i].rankData) :
                \/ c \in candidatesOf(pending.saves[i].data)
                \/ mapHas(pending.saves[i].rank, c)

====
